---- MODULE Spec2Model ----
(***************************************************************************)
(* Model of the metadata prefetch daemon (cmd/metadata_prefetch/main.go)   *)
(* and of the sidecar contract and its validator                           *)
(* (pkg/webhook/sidecar_spec.go).                                          *)
(*                                                                         *)
(* Threads of control:                                                     *)
(*   - main            : the goroutine running main(), position pc         *)
(*   - the listener    : the goroutine started at main.go:55, position lpc *)
(*   - the traversal   : the "ls -R /volumes/" subprocess, state cmd       *)
(* Environment: the orchestrator (SIGTERM), the metadata endpoint, the     *)
(* mount root and the subprocess's own progress.                           *)
(*                                                                         *)
(* Strings whose contents the code inspects (the machine type, the image   *)
(* reference) are sequences of one-character strings; strings compared for *)
(* equality only (the override, names, paths) are plain strings.           *)
(*                                                                         *)
(* The daemon is specified by Spec, FairSpec and LiveSpec; the sidecar     *)
(* contract, a set of pure functions, by WebhookSpec, whose initial states *)
(* draw the pods, images and configurations and whose actions apply the    *)
(* functions.                                                              *)
(***************************************************************************)
EXTENDS Integers, Sequences, FiniteSets, TLC

(***************************************************************************)
(* Bounds of the model.                                                    *)
(***************************************************************************)
\* SIGTERMs the orchestrator sends in one run.
MaxSignals == 2
\* Entries of the mount root directory.
MaxVolumes == 2
\* Containers of a pod before the sidecar is injected.
MaxContainers == 2

(***************************************************************************)
(* Program constants.                                                      *)
(***************************************************************************)
\* http.StatusOK, main.go:125.
StatusOK == 200
\* make(chan os.Signal, 1), main.go:52.
SigsCap == 1

(***************************************************************************)
(* Character strings.                                                      *)
(***************************************************************************)
sProjects     == <<"p","r","o","j","e","c","t","s","/">>
sMachineTypes == <<"/","m","a","c","h","i","n","e","T","y","p","e","s","/">>
sDash         == <<"-">>
\* The newline character.
LF            == "\n"
Digits        == {"0","1","2","3","4","5","6","7","8","9"}

\* The alternation (a3|a4|ct5l|ct5lp|ct5p|ct6e) of supportedMachineRegex.
Families ==
  { <<"a","3">>, <<"a","4">>, <<"c","t","5","l">>, <<"c","t","5","l","p">>,
    <<"c","t","5","p">>, <<"c","t","6","e">> }

\* s has p as a substring starting at position i.
HasPrefixAt(s, i, p) ==
  /\ i + Len(p) - 1 <= Len(s)
  /\ \A k \in 1..Len(p) : s[i + k - 1] = p[k]

\* Length of the longest run of digits of s starting at position i: [0-9]+ is
\* followed in the pattern by '/', which is no digit, so the run is maximal.
RECURSIVE DigitRun(_, _)
DigitRun(s, i) ==
  IF i <= Len(s) /\ s[i] \in Digits THEN 1 + DigitRun(s, i + 1) ELSE 0

\* Mutant: the pattern without its '-' after the family.
MatchStringNoDash(s) ==
  /\ HasPrefixAt(s, 1, sProjects)
  /\ LET n == DigitRun(s, Len(sProjects) + 1)
         j == Len(sProjects) + 1 + n
         k == j + Len(sMachineTypes)
     IN  /\ n >= 1
         /\ HasPrefixAt(s, j, sMachineTypes)
         /\ \E f \in Families :
              /\ HasPrefixAt(s, k, f)
              /\ \A m \in (k + Len(f))..Len(s) : s[m] # LF

\* supportedMachineRegex.MatchString(s) for the pattern
\*   ^projects/[0-9]+/machineTypes/(a3|a4|ct5l|ct5lp|ct5p|ct6e)-.*$
\* Go's regexp: ^ and $ match at the ends of the text only, and '.' matches
\* any character but a newline.
MatchString(s) ==
  /\ HasPrefixAt(s, 1, sProjects)
  /\ LET n == DigitRun(s, Len(sProjects) + 1)
         j == Len(sProjects) + 1 + n
         k == j + Len(sMachineTypes)
     IN  /\ n >= 1
         /\ HasPrefixAt(s, j, sMachineTypes)
         /\ \E f \in Families :
              /\ HasPrefixAt(s, k, f \o sDash)
              /\ \A m \in (k + Len(f) + 1)..Len(s) : s[m] # LF

(***************************************************************************)
(* Inputs.                                                                 *)
(***************************************************************************)
\* Values of USER_ENABLED_METADATA_PREFETCH; unset reads as "".
Overrides == {"TRUE", "FALSE", "", "true", "False", "1"}

\* Bodies the metadata endpoint may answer with.
Bodies ==
  { <<>>,
    sProjects \o <<"1","2","3">> \o sMachineTypes \o <<"a","3">> \o sDash
      \o <<"h","i","g","h","g","p","u","-","8","g">>,
    sProjects \o <<"1">> \o sMachineTypes \o <<"c","t","5","l","p">> \o sDash
      \o <<"h","i","g","h","t","p","u","-","4","t">>,
    sProjects \o <<"1","2","3">> \o sMachineTypes \o <<"n","2">> \o sDash
      \o <<"s","t","a","n","d","a","r","d","-","4">>,
    sProjects \o <<"1">> \o sMachineTypes \o <<"a","4">> \o sDash,
    sProjects \o <<"1">> \o sMachineTypes \o <<"a","3">>,
    sProjects \o sMachineTypes \o <<"a","3">> \o sDash \o <<"x">>,
    <<"m","a","c","h","i","n","e","T","y","p","e","s","/">> \o <<"a","4">>
      \o sDash \o <<"x">>,
    <<"x">> \o sProjects \o <<"7">> \o sMachineTypes \o <<"c","t","5","p">>
      \o sDash \o <<"x">>,
    sProjects \o <<"7">> \o sMachineTypes \o <<"c","t","6","e">> \o sDash
      \o <<"x", LF>>,
    sProjects \o <<"7">> \o sMachineTypes \o <<"c","t","5","l">> \o <<"x">>
      \o sDash \o <<"1">> }

\* HTTP status codes the endpoint may answer with.
StatusCodes == {StatusOK, 404, 503}

\* The mount root as os.ReadDir returns it: at most MaxVolumes entries, sorted
\* by name (names are numbers here), each a directory or not.
DirEntries == [name : 1..MaxVolumes, isDir : BOOLEAN]
MountRoots ==
  UNION { { r \in [1..n -> DirEntries] :
              \A i \in 1..n : \A j \in 1..n : i < j => r[i].name < r[j].name }
          : n \in 0..MaxVolumes }

(***************************************************************************)
(* The sidecar contract, sidecar_spec.go:26-71.                            *)
(***************************************************************************)
SidecarContainerName            == "gke-gcsfuse-sidecar"
SidecarContainerVolumeName      == "gke-gcsfuse-tmp"
SidecarContainerVolumeMountPath == "/tmp"

sColon == <<":">>

\* The keys of a v1.ResourceList the contract sets.
ResourceNames == {"cpu", "memory", "ephemeral-storage"}

\* Config, as GetSidecarContainerSpec reads it: the image repository and the
\* version are character strings, the limits are quantities.
Configs ==
  [ ContainerImage        : { <<"r">>, <<"h",":","5","/","r">> },
    ImageVersion          : { <<"v">>, <<>> },
    ImagePullPolicy       : { "Always" },
    CPULimit              : { "250m", "1" },
    MemoryLimit           : { "256Mi" },
    EphemeralStorageLimit : { "5Gi" } ]

\* Mutant: the requests are left out of the container.
GetSidecarContainerSpecNoRequests(c) ==
  [ Name            |-> SidecarContainerName,
    Image           |-> c.ContainerImage \o sColon \o c.ImageVersion,
    ImagePullPolicy |-> c.ImagePullPolicy,
    SecurityContext |-> [ AllowPrivilegeEscalation |-> FALSE,
                          RunAsUser |-> 0, RunAsGroup |-> 0 ],
    Args            |-> << "--v=5" >>,
    Resources       |->
      [ Limits   |-> [ r \in ResourceNames |->
                         CASE r = "cpu" -> c.CPULimit
                           [] r = "memory" -> c.MemoryLimit
                           [] r = "ephemeral-storage" -> c.EphemeralStorageLimit ],
        Requests |-> [ r \in ResourceNames |-> "0" ] ],
    VolumeMounts    |-> << [ Name      |-> SidecarContainerVolumeName,
                             MountPath |-> SidecarContainerVolumeMountPath ] >> ]

\* GetSidecarContainerSpec, sidecar_spec.go:32-62.
GetSidecarContainerSpec(c) ==
  [ Name            |-> SidecarContainerName,
    Image           |-> c.ContainerImage \o sColon \o c.ImageVersion,
    ImagePullPolicy |-> c.ImagePullPolicy,
    SecurityContext |-> [ AllowPrivilegeEscalation |-> FALSE,
                          RunAsUser |-> 0, RunAsGroup |-> 0 ],
    Args            |-> << "--v=5" >>,
    Resources       |->
      [ Limits   |-> [ r \in ResourceNames |->
                         CASE r = "cpu" -> c.CPULimit
                           [] r = "memory" -> c.MemoryLimit
                           [] r = "ephemeral-storage" -> c.EphemeralStorageLimit ],
        Requests |-> [ r \in ResourceNames |->
                         CASE r = "cpu" -> c.CPULimit
                           [] r = "memory" -> c.MemoryLimit
                           [] r = "ephemeral-storage" -> c.EphemeralStorageLimit ] ],
    VolumeMounts    |-> << [ Name      |-> SidecarContainerVolumeName,
                             MountPath |-> SidecarContainerVolumeMountPath ] >> ]

\* GetSidecarContainerVolumeSpec, sidecar_spec.go:64-71. EmptyDir is TRUE when
\* the pointer is not nil.
GetSidecarContainerVolumeSpec ==
  [ Name         |-> SidecarContainerVolumeName,
    VolumeSource |-> [ EmptyDir |-> TRUE ] ]

(***************************************************************************)
(* The validator, sidecar_spec.go:73-101.                                  *)
(***************************************************************************)
\* strings.Split(s, sep)[0] for a one-character sep: the text before the
\* first sep, or all of s when it holds none.
RECURSIVE SplitFirst(_, _)
SplitFirst(s, sep) ==
  IF s = <<>> \/ Head(s) = sep THEN <<>>
  ELSE << Head(s) >> \o SplitFirst(Tail(s), sep)

\* The loop of sidecar_spec.go:84-89 over the mounts of one container.
RECURSIVE hasSidecarMount(_)
hasSidecarMount(mounts) ==
  IF mounts = <<>> THEN FALSE
  ELSE IF /\ Head(mounts).Name = SidecarContainerVolumeName
          /\ Head(mounts).MountPath = SidecarContainerVolumeMountPath
    THEN TRUE
  ELSE hasSidecarMount(Tail(mounts))

\* Mutant: the loop over the containers goes on after a container of the
\* right name and image that lacks the mount.
containerInjectedAny(image, containers) ==
  \E i \in 1..Len(containers) :
    /\ containers[i].Name = SidecarContainerName
    /\ SplitFirst(containers[i].Image, ":") = image
    /\ hasSidecarMount(containers[i].VolumeMounts)

\* The loop of sidecar_spec.go:82-92: at the first container whose name is
\* the sidecar's and whose image, up to the first ':', is image, the mounts
\* decide and the loop ends; other containers are passed over.
RECURSIVE containerInjected(_, _)
containerInjected(image, containers) ==
  IF containers = <<>> THEN FALSE
  ELSE IF /\ Head(containers).Name = SidecarContainerName
          /\ SplitFirst(Head(containers).Image, ":") = image
    THEN hasSidecarMount(Head(containers).VolumeMounts)
  ELSE containerInjected(image, Tail(containers))

\* Mutant: the source of the volume is not looked at.
volumeInjectedByName(volumes) ==
  \E i \in 1..Len(volumes) : volumes[i].Name = SidecarContainerVolumeName

\* The loop of sidecar_spec.go:94-99.
RECURSIVE volumeInjected(_)
volumeInjected(volumes) ==
  IF volumes = <<>> THEN FALSE
  ELSE IF /\ Head(volumes).Name = SidecarContainerVolumeName
          /\ Head(volumes).VolumeSource.EmptyDir
    THEN TRUE
  ELSE volumeInjected(Tail(volumes))

\* ValidatePodHasSidecarContainerInjected, sidecar_spec.go:79-101.
ValidatePodHasSidecarContainerInjected(image, pod) ==
  containerInjected(image, pod.Spec.Containers) /\ volumeInjected(pod.Spec.Volumes)

(***************************************************************************)
(* Pods the validator is given.                                            *)
(***************************************************************************)
\* A container with the fields the validator reads; the others are as the
\* contract sets them.
Container(name, img, mounts) ==
  [ Name            |-> name,
    Image           |-> img,
    ImagePullPolicy |-> "Always",
    SecurityContext |-> [ AllowPrivilegeEscalation |-> FALSE,
                          RunAsUser |-> 0, RunAsGroup |-> 0 ],
    Args            |-> << "--v=5" >>,
    Resources       |-> [ Limits   |-> [ r \in ResourceNames |-> "1" ],
                          Requests |-> [ r \in ResourceNames |-> "1" ] ],
    VolumeMounts    |-> mounts ]

GoodMount == [ Name |-> SidecarContainerVolumeName,
               MountPath |-> SidecarContainerVolumeMountPath ]

\* Lists of volume mounts: none, the sidecar's, one with another path, the
\* sidecar's after one of another name.
MountLists ==
  { <<>>,
    << GoodMount >>,
    << [ Name |-> SidecarContainerVolumeName, MountPath |-> "/data" ] >>,
    << [ Name |-> "data", MountPath |-> SidecarContainerVolumeMountPath ], GoodMount >> }

\* Image references: "r:v", "r" (no tag), "h:5/r:v" (a registry with a port).
PodImages ==
  { <<"r",":","v">>, <<"r">>, <<"h",":","5","/","r",":","v">> }

PodContainers ==
  { Container(SidecarContainerName, img, ms) : img \in PodImages, ms \in MountLists }
    \cup { Container("workload", <<"r",":","v">>, << GoodMount >>) }

\* Lists of volumes: none, the sidecar's, one of that name with another
\* source, one of another name, the sidecar's after one of another source.
VolumeLists ==
  { <<>>,
    << GetSidecarContainerVolumeSpec >>,
    << [ Name |-> SidecarContainerVolumeName, VolumeSource |-> [ EmptyDir |-> FALSE ] ] >>,
    << [ Name |-> "data", VolumeSource |-> [ EmptyDir |-> TRUE ] ] >>,
    << [ Name |-> SidecarContainerVolumeName, VolumeSource |-> [ EmptyDir |-> FALSE ] ],
       GetSidecarContainerVolumeSpec >> }

Pods ==
  { [ Spec |-> [ Containers |-> cs, Volumes |-> vs ] ] :
      cs \in UNION { [1..n -> PodContainers] : n \in 0..MaxContainers },
      vs \in VolumeLists }

\* The image the validator is asked for.
QueryImages == { <<"r">>, <<"h",":","5","/","r">> }

\* The pod before anything is drawn.
NoPod == [ Spec |-> [ Containers |-> <<>>, Volumes |-> <<>> ] ]
NoConfig ==
  [ ContainerImage |-> <<>>, ImageVersion |-> <<>>, ImagePullPolicy |-> "",
    CPULimit |-> "", MemoryLimit |-> "", EphemeralStorageLimit |-> "" ]

(***************************************************************************)
(* State.                                                                  *)
(***************************************************************************)
VARIABLES
  pc,             \* position of main()
  lpc,            \* position of the goroutine of main.go:55; "waiting" is at
                  \* <-sigs, whether or not the goroutine has run yet
  proc,           \* the daemon process: "running", "exited" (os.Exit), "killed"
  exitCode,       \* the status passed to os.Exit; -1 while none
  envOverride,    \* USER_ENABLED_METADATA_PREFETCH in the process environment
  notified,       \* signal.Notify(sigs, SIGTERM) has been called
  sigs,           \* number of signals buffered in the channel sigs
  sigCount,       \* SIGTERMs the orchestrator has sent so far
  ctx,            \* "none", "active", "cancelled"
  cancelCount,    \* calls of cancel() so far
  statusCode,     \* getMachineType: resp.StatusCode; 0 while there is no response
  machineType,    \* main's machineType
  fetchErr,       \* main's err of main.go:63: "nil" or the failure kind
  val,            \* main's val
  enablePrefetch, \* main's enablePrefetch
  cmd,            \* the subprocess: "none", "running", "exitedOK", "exitedErr", "killed"
  startErr,       \* err of cmd.Start() is not nil
  mountPaths,     \* main's mountPaths
  listErr,        \* err of getDirectoryNames is not nil
  waitErr,        \* err of cmd.Wait() is not nil
  log,            \* the klog lines written, in order
  nFetch,         \* GET requests issued
  nDecide,        \* evaluations of the policy (main.go:69-77)
  nStart,         \* calls of cmd.Start()
  nList,          \* calls of getDirectoryNames
  nWait,          \* returns of cmd.Wait()
  wPod,           \* the pod given to the validator
  wImage,         \* the image given to the validator
  wConfig,        \* the Config given to GetSidecarContainerSpec
  wContainer,     \* what GetSidecarContainerSpec returned
  wVolume,        \* what GetSidecarContainerVolumeSpec returned
  wStep,          \* "input", "built", "injected", "validated"
  wResult         \* what ValidatePodHasSidecarContainerInjected returned

daemonVars ==
  << pc, lpc, proc, exitCode, envOverride, notified, sigs, sigCount, ctx,
     cancelCount, statusCode, machineType, fetchErr, val, enablePrefetch, cmd,
     startErr, mountPaths, listErr, waitErr, log, nFetch, nDecide, nStart,
     nList, nWait >>

webhookVars == << wPod, wImage, wConfig, wContainer, wVolume, wStep, wResult >>

vars == << daemonVars, webhookVars >>

\* What main() leaves alone in groups.
sigVars   == << lpc, proc, exitCode, notified, sigs, sigCount, ctx, cancelCount >>
fetchVars == << statusCode, machineType, fetchErr, nFetch >>
policyVars == << val, enablePrefetch, nDecide >>
cmdVars   == << cmd, startErr, mountPaths, listErr, waitErr, nStart, nList, nWait >>

\* The webhook's variables while the daemon is specified.
WebhookIdle ==
  /\ wPod = NoPod
  /\ wImage = <<>>
  /\ wConfig = NoConfig
  /\ wContainer = Container("", <<>>, <<>>)
  /\ wVolume = GetSidecarContainerVolumeSpec
  /\ wStep = "input"
  /\ wResult = FALSE

\* The process at the entry of main().
DaemonStart ==
  /\ pc = "CreateContext"
  /\ lpc = "notStarted"
  /\ proc = "running"
  /\ exitCode = -1
  /\ notified = FALSE
  /\ sigs = 0
  /\ sigCount = 0
  /\ ctx = "none"
  /\ cancelCount = 0
  /\ statusCode = 0
  /\ machineType = <<>>
  /\ fetchErr = "nil"
  /\ val = ""
  /\ enablePrefetch = FALSE
  /\ cmd = "none"
  /\ startErr = FALSE
  /\ mountPaths = <<>>
  /\ listErr = FALSE
  /\ waitErr = FALSE
  /\ log = <<>>
  /\ nFetch = 0
  /\ nDecide = 0
  /\ nStart = 0
  /\ nList = 0
  /\ nWait = 0

Init ==
  /\ WebhookIdle
  /\ envOverride \in Overrides
  /\ DaemonStart

Running == proc = "running"

(***************************************************************************)
(* The orchestrator's termination signal.                                  *)
(***************************************************************************)
\* Mutant: an unbuffered channel, make(chan os.Signal): the runtime's
\* non-blocking send drops the signal unless the listener is waiting.
SigtermUnbuffered ==
  /\ Running
  /\ sigCount < MaxSignals
  /\ sigCount' = sigCount + 1
  /\ IF ~notified
       THEN /\ proc' = "killed"
            /\ sigs' = sigs
       ELSE /\ proc' = proc
            /\ sigs' = IF lpc = "waiting" /\ sigs < SigsCap THEN sigs + 1 ELSE sigs
  /\ UNCHANGED << pc, lpc, exitCode, envOverride, notified, ctx, cancelCount,
                  fetchVars, policyVars, cmdVars, log >>
  /\ UNCHANGED webhookVars

\* SIGTERM is delivered to the process. Before signal.Notify the signal has its
\* default disposition and ends the process (no os.Exit, no exit status).
\* After it, the runtime sends on sigs without blocking: a signal that finds
\* the buffer full is dropped.
Sigterm ==
  /\ Running
  /\ sigCount < MaxSignals
  /\ sigCount' = sigCount + 1
  /\ IF ~notified
       THEN /\ proc' = "killed"
            /\ sigs' = sigs
       ELSE /\ proc' = proc
            /\ sigs' = IF sigs < SigsCap THEN sigs + 1 ELSE sigs
  /\ UNCHANGED << pc, lpc, exitCode, envOverride, notified, ctx, cancelCount,
                  fetchVars, policyVars, cmdVars, log >>
  /\ UNCHANGED webhookVars

(***************************************************************************)
(* The listener goroutine, main.go:55-61.                                  *)
(***************************************************************************)
\* <-sigs
ListenerReceive ==
  /\ Running
  /\ lpc = "waiting"
  /\ sigs > 0
  /\ sigs' = sigs - 1
  /\ lpc' = "caught"
  /\ UNCHANGED << pc, proc, exitCode, envOverride, notified, sigCount, ctx,
                  cancelCount, fetchVars, policyVars, cmdVars, log >>
  /\ UNCHANGED webhookVars

\* klog.Info("Caught SIGTERM signal: Terminating..."); cancel()
ListenerCancel ==
  /\ Running
  /\ lpc = "caught"
  /\ log' = Append(log, "CaughtSIGTERM")
  /\ ctx' = "cancelled"
  /\ cancelCount' = cancelCount + 1
  /\ lpc' = "cancelled"
  /\ UNCHANGED << pc, proc, exitCode, envOverride, notified, sigs, sigCount,
                  fetchVars, policyVars, cmdVars >>
  /\ UNCHANGED webhookVars

\* Mutant: the listener ends the process with a failure status.
ListenerExitFailure ==
  /\ Running
  /\ lpc = "cancelled"
  /\ proc' = "exited"
  /\ exitCode' = 1
  /\ UNCHANGED << pc, lpc, envOverride, notified, sigs, sigCount, ctx,
                  cancelCount, fetchVars, policyVars, cmdVars, log >>
  /\ UNCHANGED webhookVars

\* os.Exit(0)
ListenerExit ==
  /\ Running
  /\ lpc = "cancelled"
  /\ proc' = "exited"
  /\ exitCode' = 0
  /\ UNCHANGED << pc, lpc, envOverride, notified, sigs, sigCount, ctx,
                  cancelCount, fetchVars, policyVars, cmdVars, log >>
  /\ UNCHANGED webhookVars

(***************************************************************************)
(* main(): Starting, main.go:48-61.                                        *)
(***************************************************************************)
\* ctx, cancel := context.WithCancel(context.Background())
CreateContext ==
  /\ Running
  /\ pc = "CreateContext"
  /\ ctx' = "active"
  /\ pc' = "Notify"
  /\ UNCHANGED << lpc, proc, exitCode, envOverride, notified, sigs, sigCount,
                  cancelCount, fetchVars, policyVars, cmdVars, log >>
  /\ UNCHANGED webhookVars

\* Mutant: the registration is not done before the blocking work (it is left
\* for later).
NotifyDeferred ==
  /\ Running
  /\ pc = "Notify"
  /\ pc' = "GoListener"
  /\ UNCHANGED << lpc, proc, exitCode, envOverride, notified, sigs, sigCount,
                  ctx, cancelCount, fetchVars, policyVars, cmdVars, log >>
  /\ UNCHANGED webhookVars

\* sigs := make(chan os.Signal, 1); signal.Notify(sigs, syscall.SIGTERM)
Notify ==
  /\ Running
  /\ pc = "Notify"
  /\ notified' = TRUE
  /\ pc' = "GoListener"
  /\ UNCHANGED << lpc, proc, exitCode, envOverride, sigs, sigCount, ctx,
                  cancelCount, fetchVars, policyVars, cmdVars, log >>
  /\ UNCHANGED webhookVars

\* Mutant: with an override of "TRUE" or "FALSE" the machine type is not
\* fetched.
GoListenerSkippingFetch ==
  /\ Running
  /\ pc = "GoListener"
  /\ lpc' = "waiting"
  /\ pc' = IF envOverride \in {"TRUE", "FALSE"} THEN "Getenv" ELSE "FetchRequest"
  /\ UNCHANGED << proc, exitCode, envOverride, notified, sigs, sigCount, ctx,
                  cancelCount, fetchVars, policyVars, cmdVars, log >>
  /\ UNCHANGED webhookVars

\* go func() { ... }()
GoListener ==
  /\ Running
  /\ pc = "GoListener"
  /\ lpc' = "waiting"
  /\ pc' = "FetchRequest"
  /\ UNCHANGED << proc, exitCode, envOverride, notified, sigs, sigCount, ctx,
                  cancelCount, fetchVars, policyVars, cmdVars, log >>
  /\ UNCHANGED webhookVars

(***************************************************************************)
(* getMachineType, main.go:112-135, called at main.go:63.                  *)
(***************************************************************************)
\* Mutant: a failed read of the body returns what was read so far.
getMachineTypeResultPartial(kind, body) ==
  IF kind \in {"nil", "body"}
    THEN [machineType |-> body, err |-> kind]
    ELSE [machineType |-> <<>>, err |-> kind]

\* What getMachineType returns: (string(body), nil), or ("", err) for every
\* failure kind: "request", "transport", "status", "body".
getMachineTypeResult(kind, body) ==
  IF kind = "nil"
    THEN [machineType |-> body, err |-> "nil"]
    ELSE [machineType |-> <<>>, err |-> kind]

\* main.go:113-117: http.NewRequestWithContext, req.Header.Set.
FetchRequest ==
  /\ Running
  /\ pc = "FetchRequest"
  /\ nFetch' = nFetch + 1
  /\ \E ok \in BOOLEAN :
       IF ok
         THEN /\ pc' = "FetchDo"
              /\ UNCHANGED << machineType, fetchErr >>
         ELSE /\ pc' = "FetchReturn"
              /\ machineType' = getMachineTypeResult("request", <<>>).machineType
              /\ fetchErr' = getMachineTypeResult("request", <<>>).err
  /\ UNCHANGED << sigVars, envOverride, statusCode, policyVars, cmdVars, log >>
  /\ UNCHANGED webhookVars

\* main.go:119-122: http.DefaultClient.Do(req) returns because the request's
\* context is cancelled.
FetchDoCancelled ==
  /\ Running
  /\ pc = "FetchDo"
  /\ ctx = "cancelled"
  /\ pc' = "FetchReturn"
  /\ machineType' = getMachineTypeResult("transport", <<>>).machineType
  /\ fetchErr' = getMachineTypeResult("transport", <<>>).err
  /\ UNCHANGED << sigVars, envOverride, statusCode, nFetch, policyVars, cmdVars, log >>
  /\ UNCHANGED webhookVars

\* main.go:119-122: http.DefaultClient.Do(req) returns a transport error
\* (DNS, connection refused, ...).
FetchDoError ==
  /\ Running
  /\ pc = "FetchDo"
  /\ pc' = "FetchReturn"
  /\ machineType' = getMachineTypeResult("transport", <<>>).machineType
  /\ fetchErr' = getMachineTypeResult("transport", <<>>).err
  /\ UNCHANGED << sigVars, envOverride, statusCode, nFetch, policyVars, cmdVars, log >>
  /\ UNCHANGED webhookVars

\* main.go:119: http.DefaultClient.Do(req) returns the endpoint's response.
\* The default client has no timeout and ctx has no deadline: nothing but the
\* endpoint or cancel() ends the call.
FetchDoResponse ==
  /\ Running
  /\ pc = "FetchDo"
  /\ ctx # "cancelled"
  /\ \E st \in StatusCodes : statusCode' = st
  /\ pc' = "FetchStatus"
  /\ UNCHANGED << sigVars, envOverride, machineType, fetchErr, nFetch,
                  policyVars, cmdVars, log >>
  /\ UNCHANGED webhookVars

\* main.go:125-127: if resp.StatusCode != http.StatusOK
FetchStatus ==
  /\ Running
  /\ pc = "FetchStatus"
  /\ IF statusCode # StatusOK
       THEN /\ pc' = "FetchReturn"
            /\ machineType' = getMachineTypeResult("status", <<>>).machineType
            /\ fetchErr' = getMachineTypeResult("status", <<>>).err
       ELSE /\ pc' = "FetchRead"
            /\ UNCHANGED << machineType, fetchErr >>
  /\ UNCHANGED << sigVars, envOverride, statusCode, nFetch, policyVars, cmdVars, log >>
  /\ UNCHANGED webhookVars

\* main.go:129-134: io.ReadAll(resp.Body), return string(body), nil.
FetchRead ==
  /\ Running
  /\ pc = "FetchRead"
  /\ \E body \in Bodies : \E kind \in {"nil", "body"} :
       /\ machineType' = getMachineTypeResult(kind, body).machineType
       /\ fetchErr' = getMachineTypeResult(kind, body).err
  /\ pc' = "FetchReturn"
  /\ UNCHANGED << sigVars, envOverride, statusCode, nFetch, policyVars, cmdVars, log >>
  /\ UNCHANGED webhookVars

\* Mutant: a failed fetch is fatal (klog.Fatalf).
FetchReturnFatal ==
  /\ Running
  /\ pc = "FetchReturn"
  /\ log' = IF fetchErr # "nil" THEN Append(log, "UnableToFetchMachineType") ELSE log
  /\ pc' = "Getenv"
  /\ proc' = IF fetchErr # "nil" THEN "exited" ELSE proc
  /\ exitCode' = IF fetchErr # "nil" THEN 255 ELSE exitCode
  /\ UNCHANGED << lpc, notified, sigs, sigCount, ctx, cancelCount, envOverride,
                  fetchVars, policyVars, cmdVars >>
  /\ UNCHANGED webhookVars

\* main.go:63-66: machineType, err := getMachineType(ctx); if err != nil { warn }
FetchReturn ==
  /\ Running
  /\ pc = "FetchReturn"
  /\ log' = IF fetchErr # "nil" THEN Append(log, "UnableToFetchMachineType") ELSE log
  /\ pc' = "Getenv"
  /\ UNCHANGED << sigVars, envOverride, fetchVars, policyVars, cmdVars >>
  /\ UNCHANGED webhookVars

(***************************************************************************)
(* The prefetch policy, main.go:68-79.                                     *)
(***************************************************************************)
\* Mutant: the override is compared without regard to case.
PrefetchDecisionFold(v, mt) ==
  IF v \in {"TRUE", "true", "True"} THEN TRUE
  ELSE IF v \in {"FALSE", "false", "False"} THEN FALSE
  ELSE MatchString(mt)

\* main.go:69-77: enablePrefetch as a function of val and machineType.
PrefetchDecision(v, mt) ==
  IF v = "TRUE" THEN TRUE
  ELSE IF v = "FALSE" THEN FALSE
  ELSE MatchString(mt)

\* main.go:68: val := os.Getenv("USER_ENABLED_METADATA_PREFETCH")
Getenv ==
  /\ Running
  /\ pc = "Getenv"
  /\ val' = envOverride
  /\ pc' = "Decide"
  /\ UNCHANGED << sigVars, envOverride, fetchVars, enablePrefetch, nDecide,
                  cmdVars, log >>
  /\ UNCHANGED webhookVars

\* main.go:69-77
DecidePolicy ==
  /\ Running
  /\ pc = "Decide"
  /\ enablePrefetch' = PrefetchDecision(val, machineType)
  /\ nDecide' = nDecide + 1
  /\ pc' = "Branch"
  /\ UNCHANGED << sigVars, envOverride, fetchVars, val, cmdVars, log >>
  /\ UNCHANGED webhookVars

\* Mutant: the traversal is started whatever the decision.
BranchAlways ==
  /\ Running
  /\ pc = "Branch"
  /\ pc' = "CmdStart"
  /\ UNCHANGED << sigVars, envOverride, fetchVars, policyVars, cmdVars, log >>
  /\ UNCHANGED webhookVars

\* main.go:79: if enablePrefetch { ... }; otherwise control falls through to
\* main.go:106.
Branch ==
  /\ Running
  /\ pc = "Branch"
  /\ pc' = IF enablePrefetch THEN "CmdStart" ELSE "GoingToSleep"
  /\ UNCHANGED << sigVars, envOverride, fetchVars, policyVars, cmdVars, log >>
  /\ UNCHANGED webhookVars

(***************************************************************************)
(* The traversal, main.go:80-104.                                          *)
(***************************************************************************)
\* Mutant: Start does not look at the context.
CmdStartIgnoringContext ==
  /\ Running
  /\ pc = "CmdStart"
  /\ nStart' = nStart + 1
  /\ \E lookPathOK \in BOOLEAN :
       IF lookPathOK
         THEN /\ pc' = "CmdFork"
              /\ startErr' = startErr
         ELSE /\ pc' = "StartFailed"
              /\ startErr' = TRUE
  /\ UNCHANGED << sigVars, envOverride, fetchVars, policyVars, cmd, mountPaths,
                  listErr, waitErr, nList, nWait, log >>
  /\ UNCHANGED webhookVars

\* main.go:82-86: exec.CommandContext(ctx, "ls", "-R", mountPathsLocation) and
\* the first part of cmd.Start(): Start fails when the executable was not
\* found or when ctx is already done, and forks otherwise.
CmdStart ==
  /\ Running
  /\ pc = "CmdStart"
  /\ nStart' = nStart + 1
  /\ \E lookPathOK \in BOOLEAN :
       IF lookPathOK /\ ctx # "cancelled"
         THEN /\ pc' = "CmdFork"
              /\ startErr' = startErr
         ELSE /\ pc' = "StartFailed"
              /\ startErr' = TRUE
  /\ UNCHANGED << sigVars, envOverride, fetchVars, policyVars, cmd, mountPaths,
                  listErr, waitErr, nList, nWait, log >>
  /\ UNCHANGED webhookVars

\* Mutant: the error of cmd.Start() is not looked at; the enumeration and
\* the join follow a failed start too.
CmdForkIgnoringError ==
  /\ Running
  /\ pc = "CmdFork"
  /\ \E forkOK \in BOOLEAN :
       IF forkOK
         THEN /\ cmd' = "running"
              /\ startErr' = FALSE
              /\ pc' = "ReadDir"
         ELSE /\ cmd' = "exitedErr"
              /\ startErr' = TRUE
              /\ pc' = "ReadDir"
  /\ UNCHANGED << sigVars, envOverride, fetchVars, policyVars, mountPaths,
                  listErr, waitErr, nStart, nList, nWait, log >>
  /\ UNCHANGED webhookVars

\* main.go:86: the second part of cmd.Start(): the fork and exec, which
\* succeeds (the subprocess runs from here on) or fails.
CmdFork ==
  /\ Running
  /\ pc = "CmdFork"
  /\ \E forkOK \in BOOLEAN :
       IF forkOK
         THEN /\ cmd' = "running"
              /\ startErr' = FALSE
              /\ pc' = "ReadDir"
         ELSE /\ cmd' = cmd
              /\ startErr' = TRUE
              /\ pc' = "StartFailed"
  /\ UNCHANGED << sigVars, envOverride, fetchVars, policyVars, mountPaths,
                  listErr, waitErr, nStart, nList, nWait, log >>
  /\ UNCHANGED webhookVars

\* The loop of main.go:146-150: the names of the entries that are directories.
RECURSIVE directoriesOf(_)
directoriesOf(items) ==
  IF items = <<>> THEN <<>>
  ELSE (IF Head(items).isDir THEN << Head(items).name >> ELSE <<>>)
         \o directoriesOf(Tail(items))

\* getDirectoryNames, main.go:139-153: items and readErr are what os.ReadDir
\* returns.
getDirectoryNames(items, readErr) ==
  IF readErr
    THEN [directories |-> <<>>, err |-> TRUE]
    ELSE [directories |-> directoriesOf(items), err |-> FALSE]

\* Mutant: a failed enumeration ends the prefetch without the join.
ReadDirSkippingWait ==
  /\ Running
  /\ pc = "ReadDir"
  /\ \E items \in MountRoots : \E readErr \in BOOLEAN :
       LET r == getDirectoryNames(items, readErr) IN
       /\ mountPaths' = r.directories
       /\ listErr' = r.err
       /\ log' = Append(log, IF r.err THEN "FailedToGetMountPaths" ELSE "RunningLs")
       /\ pc' = IF r.err THEN "GoingToSleep" ELSE "Wait"
  /\ nList' = nList + 1
  /\ UNCHANGED << sigVars, envOverride, fetchVars, policyVars, cmd, startErr,
                  waitErr, nStart, nWait >>
  /\ UNCHANGED webhookVars

\* main.go:88-93: mountPaths, err := getDirectoryNames(mountPathsLocation) and
\* the log line of either outcome.
ReadDir ==
  /\ Running
  /\ pc = "ReadDir"
  /\ \E items \in MountRoots : \E readErr \in BOOLEAN :
       LET r == getDirectoryNames(items, readErr) IN
       /\ mountPaths' = r.directories
       /\ listErr' = r.err
       /\ log' = Append(log, IF r.err THEN "FailedToGetMountPaths" ELSE "RunningLs")
  /\ nList' = nList + 1
  /\ pc' = "Wait"
  /\ UNCHANGED << sigVars, envOverride, fetchVars, policyVars, cmd, startErr,
                  waitErr, nStart, nWait >>
  /\ UNCHANGED webhookVars

\* The subprocess ends by itself, with or without an error. It is a process
\* of its own and may end after the daemon has.
SubprocessExit ==
  /\ cmd = "running"
  /\ \E ok \in BOOLEAN : cmd' = IF ok THEN "exitedOK" ELSE "exitedErr"
  /\ UNCHANGED << pc, sigVars, envOverride, fetchVars, policyVars, startErr,
                  mountPaths, listErr, waitErr, nStart, nList, nWait, log >>
  /\ UNCHANGED webhookVars

\* exec.CommandContext: once ctx is done the running subprocess is killed by
\* the daemon process.
SubprocessKill ==
  /\ Running
  /\ cmd = "running"
  /\ ctx = "cancelled"
  /\ cmd' = "killed"
  /\ UNCHANGED << pc, sigVars, envOverride, fetchVars, policyVars, startErr,
                  mountPaths, listErr, waitErr, nStart, nList, nWait, log >>
  /\ UNCHANGED webhookVars

\* Mutant: main cancels the context itself once the join has returned.
WaitThenCancel ==
  /\ Running
  /\ pc = "Wait"
  /\ cmd \in {"exitedOK", "exitedErr", "killed"}
  /\ \E e \in (IF cmd # "exitedOK" THEN {TRUE}
               ELSE IF ctx = "cancelled" THEN BOOLEAN ELSE {FALSE}) :
       /\ waitErr' = e
       /\ log' = Append(log, IF e THEN "ErrorExecutingLs" ELSE "PrefetchComplete")
  /\ nWait' = nWait + 1
  /\ pc' = "GoingToSleep"
  /\ ctx' = "cancelled"
  /\ cancelCount' = cancelCount + 1
  /\ UNCHANGED << lpc, proc, exitCode, notified, sigs, sigCount, envOverride,
                  fetchVars, policyVars, cmd, startErr, mountPaths, listErr,
                  nStart, nList >>
  /\ UNCHANGED webhookVars

\* main.go:95-100: err = cmd.Wait() returns once the subprocess has ended; the
\* error is nil when it ended successfully (with ctx done meanwhile, Wait may
\* report the context's error instead).
Wait ==
  /\ Running
  /\ pc = "Wait"
  /\ cmd \in {"exitedOK", "exitedErr", "killed"}
  /\ \E e \in (IF cmd # "exitedOK" THEN {TRUE}
               ELSE IF ctx = "cancelled" THEN BOOLEAN ELSE {FALSE}) :
       /\ waitErr' = e
       /\ log' = Append(log, IF e THEN "ErrorExecutingLs" ELSE "PrefetchComplete")
  /\ nWait' = nWait + 1
  /\ pc' = "GoingToSleep"
  /\ UNCHANGED << sigVars, envOverride, fetchVars, policyVars, cmd, startErr,
                  mountPaths, listErr, nStart, nList >>
  /\ UNCHANGED webhookVars

\* main.go:101-103: klog.Errorf("Error starting ls command: %v.", err)
StartFailed ==
  /\ Running
  /\ pc = "StartFailed"
  /\ log' = Append(log, "ErrorStartingLs")
  /\ pc' = "GoingToSleep"
  /\ UNCHANGED << sigVars, envOverride, fetchVars, policyVars, cmdVars >>
  /\ UNCHANGED webhookVars

\* Mutant: the daemon ends when it has nothing left to do.
GoingToSleepAndExit ==
  /\ Running
  /\ pc = "GoingToSleep"
  /\ log' = Append(log, "GoingToSleep")
  /\ pc' = "Parked"
  /\ proc' = "exited"
  /\ exitCode' = 0
  /\ UNCHANGED << lpc, notified, sigs, sigCount, ctx, cancelCount, envOverride,
                  fetchVars, policyVars, cmdVars >>
  /\ UNCHANGED webhookVars

\* main.go:106-109: klog.Info("Going to sleep..."); select {}
GoingToSleep ==
  /\ Running
  /\ pc = "GoingToSleep"
  /\ log' = Append(log, "GoingToSleep")
  /\ pc' = "Parked"
  /\ UNCHANGED << sigVars, envOverride, fetchVars, policyVars, cmdVars >>
  /\ UNCHANGED webhookVars

(***************************************************************************)
(* Specifications.                                                         *)
(***************************************************************************)
\* The steps of the listener goroutine.
Listener == ListenerReceive \/ ListenerCancel \/ ListenerExit

\* The steps of main() and of the library goroutines of the daemon that wait
\* for nothing outside the process.
MainLocal ==
  \/ CreateContext \/ Notify \/ GoListener
  \/ FetchRequest \/ FetchDoCancelled \/ FetchStatus \/ FetchReturn
  \/ Getenv \/ DecidePolicy \/ Branch
  \/ CmdStart \/ CmdFork \/ Wait \/ StartFailed \/ GoingToSleep
  \/ SubprocessKill

\* The returns of the calls that wait for the outside: the metadata endpoint,
\* the file system, the subprocess.
ExternalReturns ==
  \/ FetchDoError \/ FetchDoResponse \/ FetchRead
  \/ ReadDir
  \/ SubprocessExit

Next == Sigterm \/ Listener \/ MainLocal \/ ExternalReturns

Spec == Init /\ [][Next]_vars

\* The Go scheduler runs every goroutine that can take a step.
FairSpec == Spec /\ WF_vars(Listener) /\ WF_vars(MainLocal)

\* FairSpec in an environment where every external call returns.
LiveSpec == FairSpec /\ WF_vars(ExternalReturns)

(***************************************************************************)
(* The sidecar contract applied: a Config is turned into the container and *)
(* the volume, these are put into a pod, and the validator is asked about  *)
(* a pod, injected or not.                                                 *)
(***************************************************************************)
WebhookInit ==
  /\ DaemonStart
  /\ envOverride = ""
  /\ wPod \in Pods
  /\ wImage \in QueryImages
  /\ wConfig = NoConfig
  /\ wContainer = Container("", <<>>, <<>>)
  /\ wVolume = GetSidecarContainerVolumeSpec
  /\ wStep = "input"
  /\ wResult = FALSE

\* GetSidecarContainerSpec(c) and GetSidecarContainerVolumeSpec() are called.
Build ==
  /\ wStep = "input"
  /\ \E c \in Configs :
       /\ wConfig' = c
       /\ wContainer' = GetSidecarContainerSpec(c)
  /\ wVolume' = GetSidecarContainerVolumeSpec
  /\ wStep' = "built"
  /\ UNCHANGED << wPod, wImage, wResult >>
  /\ UNCHANGED daemonVars

\* The container and the volume are put into the pod: the container first
\* or last, the volume last.
Inject ==
  /\ wStep = "built"
  /\ \E first \in BOOLEAN :
       wPod' = [ Spec |->
                  [ Containers |-> IF first
                                     THEN << wContainer >> \o wPod.Spec.Containers
                                     ELSE Append(wPod.Spec.Containers, wContainer),
                    Volumes    |-> Append(wPod.Spec.Volumes, wVolume) ] ]
  /\ wStep' = "injected"
  /\ UNCHANGED << wImage, wConfig, wContainer, wVolume, wResult >>
  /\ UNCHANGED daemonVars

\* ValidatePodHasSidecarContainerInjected(image, pod) is called.
Validate ==
  /\ wStep \in {"input", "injected"}
  /\ wResult' = ValidatePodHasSidecarContainerInjected(wImage, wPod)
  /\ wStep' = "validated"
  /\ UNCHANGED << wPod, wImage, wConfig, wContainer, wVolume >>
  /\ UNCHANGED daemonVars

WebhookNext == Build \/ Inject \/ Validate

WebhookSpec == WebhookInit /\ [][WebhookNext]_vars

(***************************************************************************)
(* The states of the daemon's state machine, as positions of main().       *)
(***************************************************************************)
StartingPCs == {"CreateContext", "Notify", "GoListener"}
ClassifyPCs == {"FetchRequest", "FetchDo", "FetchStatus", "FetchRead", "FetchReturn"}
DecidePCs   == {"Getenv", "Decide", "Branch"}
RunningPCs  == {"CmdStart", "CmdFork", "ReadDir", "Wait", "StartFailed"}

\* The state the daemon is in. The log line of main.go:106 ends whichever of
\* the two branches of main.go:79 was taken.
PhaseOf(p, enabled) ==
  IF p \in StartingPCs THEN "Starting"
  ELSE IF p \in ClassifyPCs THEN "ClassifyMachine"
  ELSE IF p \in DecidePCs THEN "DecidePolicy"
  ELSE IF p \in RunningPCs THEN "PrefetchRunning"
  ELSE IF p = "GoingToSleep"
    THEN (IF enabled THEN "PrefetchRunning" ELSE "PrefetchDisabled")
  ELSE "Parked"

Phase == PhaseOf(pc, enablePrefetch)

Rank(ph) ==
  CASE ph = "Starting" -> 0
    [] ph = "ClassifyMachine" -> 1
    [] ph = "DecidePolicy" -> 2
    [] ph \in {"PrefetchDisabled", "PrefetchRunning"} -> 3
    [] ph = "Parked" -> 4

\* The calls of main() that may suspend it: the metadata fetch, the start of
\* the subprocess, the enumeration, the join, the final park.
SuspensionPCs == {"FetchDo", "FetchRead", "CmdFork", "ReadDir", "Wait", "Parked"}

(***************************************************************************)
(* Claims.                                                                 *)
(***************************************************************************)
\* A termination signal has been delivered after signal.Notify.
SignalPending == Running /\ notified /\ sigCount > 0

ExitedWithSuccess ==
  proc = "exited" /\ exitCode = 0 /\ ctx = "cancelled" /\ cancelCount = 1

\* C1: a SIGTERM received in any state after the listener is registered
\* leads, under fair scheduling, to the cancellation of the context followed
\* by process exit with status 0; the exit does not wait for the subprocess.
C1_SigtermLeadsToExit == SignalPending ~> ExitedWithSuccess

\* The daemon has exited with status 0 while the traversal is still running.
C1_Witness ==
  ExitedWithSuccess /\ cmd = "running" /\ pc = "Wait"

\* C2: the listener is registered and the context armed before main reaches
\* any suspension point, so a SIGTERM arriving once main is past the
\* registration, even before the listener waits, neither ends the process by
\* its default disposition nor is dropped: it is buffered in sigs or has been
\* received by the listener.
C2_RegisteredBeforeSuspension ==
  /\ pc \in SuspensionPCs => notified /\ ctx # "none" /\ lpc # "notStarted"
  /\ pc \notin StartingPCs => notified /\ ctx # "none"
  /\ (sigCount > 0 /\ pc \notin {"CreateContext", "Notify"}) =>
       /\ proc # "killed"
       /\ sigs > 0 \/ lpc \in {"caught", "cancelled"}

\* A SIGTERM arrived during the metadata fetch and waits in the channel.
C2_Witness ==
  pc = "FetchDo" /\ sigCount = 1 /\ sigs = 1 /\ lpc = "waiting" /\ Running

\* C3: when no termination signal arrives and every external call returns,
\* the daemon eventually reaches Parked, whatever the outcomes of its calls.
C3_EventuallyParked == <>(sigCount > 0 \/ pc = "Parked")

\* Parked without a signal after a failed fetch, a failed enumeration and a
\* failed traversal.
C3_Witness ==
  /\ pc = "Parked" /\ sigCount = 0 /\ Running
  /\ fetchErr # "nil" /\ listErr /\ waitErr

\* C4: the daemon never exits on its own: whenever the process has ended, a
\* termination signal was received before; an exit is the listener's, with
\* status 0.
C4_ExitOnlyOnSignal ==
  /\ proc # "running" => sigCount > 0
  /\ proc = "exited" => exitCode = 0 /\ lpc = "cancelled" /\ notified
  /\ proc # "exited" => exitCode = -1

\* The process has exited with status 0 after a failed fetch and a failed
\* traversal.
C4_Witness ==
  proc = "exited" /\ exitCode = 0 /\ fetchErr # "nil" /\ waitErr

\* C5: the decision is a function of the override and the machine type:
\* "TRUE" enables, "FALSE" disables, and any other override (compared
\* case-sensitively) enables iff the machine type is an accelerated family.
C5_DecisionFunction ==
  nDecide > 0 =>
    /\ val = envOverride
    /\ val = "TRUE" => enablePrefetch
    /\ val = "FALSE" => ~enablePrefetch
    /\ val \notin {"TRUE", "FALSE"} => (enablePrefetch <=> MatchString(machineType))

\* Override "true" (lower case) on a machine that is not accelerated: the
\* override is not taken for "TRUE" and the classifier decides.
C5_Witness ==
  /\ nDecide > 0 /\ val = "true" /\ ~enablePrefetch
  /\ machineType # <<>> /\ ~MatchString(machineType)

\* What holds in every state after a failed fetch: the machine type is the
\* empty string and not accelerated; without override "TRUE" nothing of the
\* traversal has happened; with it main sleeps only after a start was
\* attempted; the process has not exited unless signalled.
FetchFailureState ==
  fetchErr # "nil" =>
    /\ machineType = <<>>
    /\ ~MatchString(machineType)
    /\ envOverride # "TRUE" => nStart = 0 /\ cmd = "none" /\ pc \notin RunningPCs
    /\ (envOverride = "TRUE" /\ nDecide > 0) => enablePrefetch
    /\ (envOverride = "TRUE" /\ pc \in {"GoingToSleep", "Parked"}) => nStart = 1
    /\ proc = "exited" => sigCount > 0 /\ exitCode = 0

\* C6: after a failed metadata fetch (of any kind) the daemon continues with
\* the empty machine type, which is not accelerated: with an override other
\* than "TRUE" no traversal is launched, with "TRUE" the start of the
\* traversal is still attempted, and in both cases the daemon goes on to
\* Parked (unless a termination signal arrives) instead of exiting.
C6_FetchFailure ==
  /\ []FetchFailureState
  /\ (fetchErr # "nil") ~> (pc = "Parked" \/ sigCount > 0)

\* Parked without a signal after a failed fetch, the traversal launched
\* because the override is "TRUE".
C6_Witness ==
  /\ pc = "Parked" /\ sigCount = 0 /\ fetchErr # "nil"
  /\ envOverride = "TRUE" /\ cmd = "exitedOK"

\* C7: the traversal is launched only when the decision is enabled; when it
\* is disabled main goes from the decision to the sleep without a start and
\* without an enumeration; when it is enabled a start is attempted before any
\* look at the mount root, whatever it contains.
C7_TraversalOnlyWhenEnabled ==
  /\ (cmd # "none" \/ nStart > 0 \/ nList > 0 \/ pc \in RunningPCs) =>
       enablePrefetch /\ nDecide = 1
  /\ (nDecide > 0 /\ ~enablePrefetch) =>
       /\ pc \in {"Branch", "GoingToSleep", "Parked"}
       /\ nStart = 0 /\ nList = 0 /\ nWait = 0 /\ cmd = "none"
  /\ (enablePrefetch /\ pc \in {"GoingToSleep", "Parked"}) => nStart = 1
  /\ nList > 0 => nStart = 1 /\ cmd # "none"

\* Override "TRUE", a mount root without subdirectories: the traversal was
\* launched and has completed, the directory list is empty, the daemon parks.
C7_Witness ==
  /\ pc = "Parked" /\ val = "TRUE" /\ cmd = "exitedOK" /\ ~waitErr
  /\ nList = 1 /\ ~listErr /\ mountPaths = <<>>

\* One step of the daemon keeps the order of its states.
C8_Step ==
  /\ \/ PhaseOf(pc', enablePrefetch') = Phase
     \/ Rank(PhaseOf(pc', enablePrefetch')) = Rank(Phase) + 1
  /\ pc = "Parked" => pc' = "Parked"
  /\ nFetch' <= 1 /\ nDecide' <= 1 /\ nStart' <= 1
  /\ Rank(PhaseOf(pc', enablePrefetch')) >= 2 => nFetch' = 1
  /\ Rank(PhaseOf(pc', enablePrefetch')) >= 3 => nDecide' = 1

\* C8: main visits Starting, ClassifyMachine, DecidePolicy, one of
\* PrefetchDisabled and PrefetchRunning, Parked in this order, skipping none
\* and never going back; the fetch, the decision and the start of the
\* traversal happen at most once; Parked is left by no step of main.
C8_StateOrder == [][C8_Step]_vars

\* Parked with override "FALSE": the machine type was fetched all the same.
C8_Witness ==
  /\ pc = "Parked" /\ val = "FALSE" /\ nFetch = 1 /\ fetchErr = "nil"
  /\ MatchString(machineType) /\ nStart = 0

\* C9: the enumeration of the mount root runs after the start of the
\* traversal and before the join; main reaches the sleep only after the
\* enumeration has returned (with or without an error) and the join has
\* returned; while the enumeration is pending and the traversal runs, either
\* may complete first.
C9_EnumerationAndJoin ==
  /\ nList > 0 => cmd # "none"
  /\ nWait > 0 => nList = 1
  /\ pc = "ReadDir" => cmd # "none" /\ nList = 0 /\ nWait = 0
  /\ pc = "Wait" => cmd # "none" /\ nList = 1 /\ nWait = 0
  /\ (pc \in {"GoingToSleep", "Parked"} /\ cmd # "none") =>
       /\ nList = 1 /\ nWait = 1
       /\ cmd \in {"exitedOK", "exitedErr", "killed"}
  /\ (pc = "ReadDir" /\ cmd = "running" /\ Running) =>
       ENABLED ReadDir /\ ENABLED SubprocessExit
  /\ (pc = "Wait" /\ Running /\ cmd = "running") => ~ENABLED Wait

\* The traversal has ended while the enumeration has not returned yet.
C9_Witness ==
  pc = "ReadDir" /\ cmd = "exitedOK" /\ sigCount = 0

\* The other order: the enumeration has returned, the traversal runs.
C9_EnumerationFirst ==
  pc = "Wait" /\ cmd = "running" /\ sigCount = 0

\* Parked after a failed enumeration: the join was done.
C9_FailedEnumerationJoined ==
  pc = "Parked" /\ listErr /\ nWait = 1 /\ sigCount = 0

\* C10: in every fair run the daemon eventually leaves ClassifyMachine, also
\* when the metadata endpoint never answers.
C10_LeavesClassifyMachine ==
  (Phase = "ClassifyMachine") ~> (Phase # "ClassifyMachine" \/ ~Running)

(***************************************************************************)
(* The validator's inputs described without the loops of the code.         *)
(***************************************************************************)
\* img is repo, then nothing or a ':' and anything, and repo holds no ':'.
ImageRepositoryIs(img, repo) ==
  /\ Len(repo) <= Len(img)
  /\ SubSeq(img, 1, Len(repo)) = repo
  /\ \A k \in 1..Len(repo) : repo[k] # ":"
  /\ (Len(img) > Len(repo) => img[Len(repo) + 1] = ":")

HasFixedMount(c) ==
  \E k \in 1..Len(c.VolumeMounts) :
    /\ c.VolumeMounts[k].Name = SidecarContainerVolumeName
    /\ c.VolumeMounts[k].MountPath = SidecarContainerVolumeMountPath

HasFixedVolume(pod) ==
  \E k \in 1..Len(pod.Spec.Volumes) :
    /\ pod.Spec.Volumes[k].Name = SidecarContainerVolumeName
    /\ pod.Spec.Volumes[k].VolumeSource.EmptyDir

\* The positions of the containers that bear the sidecar's name.
SidecarNamed(pod) ==
  { i \in 1..Len(pod.Spec.Containers) :
      pod.Spec.Containers[i].Name = SidecarContainerName }

\* The positions of the sidecar-named containers whose repository is image.
SidecarOfImage(image, pod) ==
  { i \in SidecarNamed(pod) :
      ImageRepositoryIs(pod.Spec.Containers[i].Image, image) }

Min(S) == CHOOSE x \in S : \A y \in S : x <= y

Validated == wStep = "validated"

\* C11 as stated: the validator returns true for every pod that has a
\* sidecar-named container of the image's repository with the fixed mount,
\* and the fixed empty-dir volume. Violated by a pod in which an earlier
\* sidecar-named container of the same repository lacks the mount.
C11_TrueForAnyMatchingContainer ==
  Validated =>
    ( ( /\ \E i \in SidecarOfImage(wImage, wPod) :
             HasFixedMount(wPod.Spec.Containers[i])
        /\ HasFixedVolume(wPod) )
      => wResult )

\* C11: the validator returns true exactly when the first sidecar-named
\* container of the image's repository has the fixed mount and the pod has
\* the fixed empty-dir volume; so for a pod with a single sidecar-named
\* container it returns true when all of repository, mount and volume are
\* right and false when any one is not, and it returns false when the
\* container list or the volume list is empty.
C11_ValidatorContract ==
  Validated =>
    /\ wResult <=>
         /\ SidecarOfImage(wImage, wPod) # {}
         /\ HasFixedMount(wPod.Spec.Containers[Min(SidecarOfImage(wImage, wPod))])
         /\ HasFixedVolume(wPod)
    /\ Cardinality(SidecarNamed(wPod)) = 1 =>
         LET c == wPod.Spec.Containers[Min(SidecarNamed(wPod))]
         IN  wResult <=> /\ ImageRepositoryIs(c.Image, wImage)
                         /\ HasFixedMount(c)
                         /\ HasFixedVolume(wPod)
    /\ (wPod.Spec.Containers = <<>> \/ wPod.Spec.Volumes = <<>>) => ~wResult

\* A pod with two sidecar-named containers of the image's repository, the
\* first with the fixed mount and the second without, was accepted.
C11_Witness ==
  /\ Validated
  /\ wResult
  /\ wConfig = NoConfig
  /\ Cardinality(SidecarOfImage(wImage, wPod)) = 2
  /\ \E i \in SidecarOfImage(wImage, wPod) :
       ~HasFixedMount(wPod.Spec.Containers[i])

\* C12 as stated: the first container that bears the sidecar's name decides;
\* when its image repository is not the image or it lacks the fixed mount,
\* the validator returns false. Violated by a pod whose first sidecar-named
\* container is of another repository and whose second is as required.
C12_FirstNamedDecides ==
  (Validated /\ SidecarNamed(wPod) # {}) =>
    LET c == wPod.Spec.Containers[Min(SidecarNamed(wPod))]
    IN  (~ImageRepositoryIs(c.Image, wImage) \/ ~HasFixedMount(c)) => ~wResult

\* C12: the first container that bears the sidecar's name and is of the
\* image's repository decides: when it lacks the fixed mount the validator
\* returns false whatever the later containers are, and when it has the
\* mount and the pod has the fixed volume the validator returns true, also
\* when an earlier sidecar-named container is of another repository.
C12_FirstOfImageDecides ==
  (Validated /\ SidecarOfImage(wImage, wPod) # {}) =>
    LET c == wPod.Spec.Containers[Min(SidecarOfImage(wImage, wPod))]
    IN  /\ ~HasFixedMount(c) => ~wResult
        /\ (HasFixedMount(c) /\ HasFixedVolume(wPod)) => wResult

\* A pod with the fixed volume whose first sidecar-named container of the
\* image's repository lacks the mount and whose second has it was rejected.
C12_Witness ==
  /\ Validated
  /\ ~wResult
  /\ HasFixedVolume(wPod)
  /\ Cardinality(SidecarOfImage(wImage, wPod)) = 2
  /\ ~HasFixedMount(wPod.Spec.Containers[Min(SidecarOfImage(wImage, wPod))])
  /\ \E i \in SidecarOfImage(wImage, wPod) : HasFixedMount(wPod.Spec.Containers[i])

\* GetSidecarContainerSpec was applied to wConfig and wContainer is its result.
Built == wConfig # NoConfig

\* C13: for every Config the container that GetSidecarContainerSpec returns
\* has Requests equal to its Limits for CPU, memory and ephemeral storage,
\* each being the Config's limit for that resource, and has exactly one
\* volume mount, with the fixed volume name and the fixed mount path.
C13_RequestsEqualLimits ==
  Built =>
    /\ wContainer.Resources.Requests = wContainer.Resources.Limits
    /\ DOMAIN wContainer.Resources.Limits = {"cpu", "memory", "ephemeral-storage"}
    /\ wContainer.Resources.Limits["cpu"] = wConfig.CPULimit
    /\ wContainer.Resources.Limits["memory"] = wConfig.MemoryLimit
    /\ wContainer.Resources.Limits["ephemeral-storage"] = wConfig.EphemeralStorageLimit
    /\ wContainer.Resources.Requests["cpu"] = wConfig.CPULimit
    /\ wContainer.Resources.Requests["memory"] = wConfig.MemoryLimit
    /\ wContainer.Resources.Requests["ephemeral-storage"] = wConfig.EphemeralStorageLimit
    /\ Len(wContainer.VolumeMounts) = 1
    /\ wContainer.VolumeMounts[1].Name = SidecarContainerVolumeName
    /\ wContainer.VolumeMounts[1].MountPath = SidecarContainerVolumeMountPath

\* The container was built from a Config whose three limits differ.
C13_Witness ==
  /\ wStep = "built"
  /\ wConfig.CPULimit = "1"
  /\ wConfig.MemoryLimit = "256Mi"
  /\ wConfig.EphemeralStorageLimit = "5Gi"
  /\ wContainer.Resources.Requests["cpu"] = "1"

\* s is projects/<n digits>/machineTypes/<f>-<rest>; RestOf is where <rest>
\* begins.
RestOf(n, f) == Len(sProjects) + n + Len(sMachineTypes) + Len(f) + 2

OfTheForm(s, n, f) ==
  /\ n >= 1
  /\ RestOf(n, f) - 1 <= Len(s)
  /\ SubSeq(s, 1, Len(sProjects)) = sProjects
  /\ \A k \in (Len(sProjects) + 1)..(Len(sProjects) + n) : s[k] \in Digits
  /\ SubSeq(s, Len(sProjects) + n + 1, RestOf(n, f) - 1) = sMachineTypes \o f \o sDash

\* The classifier was asked: the override is neither "TRUE" nor "FALSE", and
\* enablePrefetch is what MatchString returned for machineType.
Classified == nDecide > 0 /\ val \notin {"TRUE", "FALSE"}

\* C14 as stated: the classifier returns true exactly for the strings of the
\* form projects/<digits>/machineTypes/<family>-<rest>, whatever <rest> is.
\* Violated by a machine type whose <rest> holds a newline.
C14_ExactlyTheForm ==
  Classified =>
    ( enablePrefetch <=>
        \E n \in 1..Len(machineType) : \E f \in Families :
          OfTheForm(machineType, n, f) )

\* C14: the classifier returns true exactly for the strings of the form
\* projects/<one or more digits>/machineTypes/<family>-<rest> with <family>
\* one of a3, a4, ct5l, ct5lp, ct5p, ct6e and <rest> free of newlines, the
\* whole string being matched; so it returns false for the empty string.
C14_ExactlyTheFormOnOneLine ==
  Classified =>
    /\ enablePrefetch <=>
         \E n \in 1..Len(machineType) : \E f \in Families :
           /\ OfTheForm(machineType, n, f)
           /\ \A k \in RestOf(n, f)..Len(machineType) : machineType[k] # LF
    /\ machineType = <<>> => ~enablePrefetch

\* The classifier accepted a ct5lp machine type, whose family has the family
\* ct5l as a prefix.
C14_Witness ==
  /\ Classified
  /\ enablePrefetch
  /\ OfTheForm(machineType, 1, <<"c","t","5","l","p">>)

\* In a state: a cancelled context has a received signal and the listener's
\* cancel() behind it, cancel() was called at most once, and the traversal
\* was killed by the daemon only under a cancelled context.
C15_CancelledBySignalOnly ==
  /\ ctx = "cancelled" =>
       (sigCount > 0 /\ notified /\ lpc = "cancelled")
  /\ cancelCount <= 1
  /\ cancelCount = 1 <=> ctx = "cancelled"
  /\ cmd = "killed" => ctx = "cancelled"
  /\ sigCount = 0 => (ctx # "cancelled" /\ cmd # "killed")

\* In a step: the context becomes cancelled in a step of the listener, in
\* which main does not move, and it never ceases to be cancelled.
C15_CancelStep ==
  /\ (ctx # "cancelled" /\ ctx' = "cancelled") =>
       (lpc = "caught" /\ lpc' = "cancelled" /\ pc' = pc)
  /\ ctx = "cancelled" => ctx' = "cancelled"
  /\ cancelCount' # cancelCount => (lpc = "caught" /\ lpc' = "cancelled")

\* C15: the listener is the only writer of the cancellation: whenever the
\* context is cancelled a termination signal was received before and the
\* listener has called cancel(); no step of main cancels the context, so
\* without a termination signal the traversal is never killed by the daemon;
\* and cancel() is called at most once.
C15_ListenerOnlyWriter == [](C15_CancelledBySignalOnly) /\ [][C15_CancelStep]_vars

\* After two signals the context was cancelled once and the running
\* traversal was killed.
C15_Witness ==
  /\ ctx = "cancelled"
  /\ cancelCount = 1
  /\ sigCount = 2
  /\ cmd = "killed"

Logged(tag) == \E i \in 1..Len(log) : log[i] = tag

\* In a state: after a failed start the decision was enabled, no subprocess
\* exists, nothing was enumerated or joined, main is on its way to Parked,
\* and once past the error branch the start error is in the log; a join was
\* made only on a subprocess that had been started.
C16_FailedStartState ==
  /\ startErr =>
       /\ enablePrefetch
       /\ cmd = "none"
       /\ nList = 0 /\ nWait = 0
       /\ mountPaths = <<>>
       /\ pc \in {"StartFailed", "GoingToSleep", "Parked"}
       /\ ~Logged("RunningLs") /\ ~Logged("FailedToGetMountPaths")
       /\ ~Logged("ErrorExecutingLs") /\ ~Logged("PrefetchComplete")
       /\ pc \in {"GoingToSleep", "Parked"} => Logged("ErrorStartingLs")
  /\ nWait > 0 => (~startErr /\ cmd \in {"exitedOK", "exitedErr", "killed"})
  /\ Logged("ErrorStartingLs") => startErr

\* In a step: from the error branch main goes to the sleep message and from
\* there to Parked, nowhere else.
C16_FailedStartStep ==
  /\ pc = "StartFailed" => pc' \in {"StartFailed", "GoingToSleep"}
  /\ (startErr /\ pc = "GoingToSleep") => pc' \in {"GoingToSleep", "Parked"}
  /\ startErr => startErr'

\* C16: when the decision is enabled and the start of the traversal fails,
\* the daemon enumerates nothing and joins nothing: it logs the start error
\* and goes to Parked; the join is made only on a subprocess that was
\* started successfully.
C16_FailedStart == [](C16_FailedStartState) /\ [][C16_FailedStartStep]_vars

\* Parked after a failed start, with the classifier having enabled the
\* traversal.
C16_Witness ==
  /\ pc = "Parked"
  /\ startErr
  /\ enablePrefetch
  /\ val = ""
  /\ ctx = "active"
  /\ Logged("ErrorStartingLs")

\* C17 as stated: once the context is cancelled, a traversal that was not
\* started is never started. Violated when cancel() falls between the context
\* check of cmd.Start() and its fork.
C17_NeverStartedAfterCancel ==
  [][(ctx = "cancelled" /\ cmd = "none") => cmd' = "none"]_vars

\* The context is cancelled, no subprocess exists, and no cmd.Start() is
\* past its context check.
CancelledBeforeStart == ctx = "cancelled" /\ cmd = "none" /\ pc # "CmdFork"

\* A step under CancelledBeforeStart: it remains so, and a cmd.Start() that
\* is called fails.
C17_CancelStep ==
  CancelledBeforeStart =>
    /\ CancelledBeforeStart'
    /\ nStart' # nStart => (startErr' /\ pc' = "StartFailed")

\* C17: once the listener has cancelled the context, a cmd.Start() that is
\* called afterwards launches no subprocess: it fails, and no traversal
\* exists from then on. (A termination signal handled during the metadata
\* fetch with override "TRUE" leads to no traversal.)
C17_NoStartAfterCancel == [][C17_CancelStep]_vars

\* Override "TRUE", the fetch was ended by the cancellation, and the start
\* that followed has failed.
C17_Witness ==
  /\ ctx = "cancelled"
  /\ val = "TRUE"
  /\ enablePrefetch
  /\ fetchErr # "nil"
  /\ nStart = 1
  /\ pc = "StartFailed"
  /\ cmd = "none"

\* C18: for every Config c, the pod into which GetSidecarContainerSpec(c) was
\* put as the only sidecar-named container, together with the volume of
\* GetSidecarContainerVolumeSpec(), is accepted by the validator asked for
\* c.ContainerImage. Violated by a Config whose ContainerImage holds a ':'
\* (a registry with a port).
C18_RoundTrip ==
  ( /\ Validated
    /\ Built
    /\ wImage = wConfig.ContainerImage
    /\ Cardinality(SidecarNamed(wPod)) = 1 )
  => wResult

=============================================================================
